---- MODULE Spec2Model ----
(***************************************************************************)
(* Boss respawn timers (src/api/index.py, src/api/timezone_utils.py).      *)
(*                                                                         *)
(* Instants and durations are integers counted in ticks, TicksPerSecond    *)
(* ticks to the second, so that the sub-second part a Python datetime      *)
(* carries (microseconds) is present in the model.  A datetime is a record *)
(* [t, tz]; a stored timestamp is the string isoformat() produced, or one  *)
(* of the other values a document field can hold.                          *)
(***************************************************************************)
EXTENDS Integers, Sequences, FiniteSets, TLC

VARIABLES
    now,                       \* the clock: what utcnow()/get_current_utc() return
    timers_collection,         \* db['timers']: a set of documents
    mongodb,                   \* the MongoDB server, as the requests find it
    users_collection,          \* db['users']
    pending_users_collection,  \* db['pending_users']
    session,                   \* the Flask session of the client
    response,                  \* what the last request answered (route, flash)
    rendered,                  \* the lists the last index request rendered
    inflight,                  \* the edit requests between their load and their save
    call,                      \* a call of a function: its argument, its result
    other_session              \* the Flask session of a second client

vars == <<now, timers_collection, mongodb, users_collection,
          pending_users_collection, session, response, rendered, inflight, call,
          other_session>>

---------------------------------------------------------------------------
(* Time *)

TicksPerSecond == 2
SecondsPerMinute == 60
TicksPerMinute == SecondsPerMinute * TicksPerSecond

\* The clock readings the model visits: the whole minutes of MinuteMarks and
\* the ticks next to them.  With a kill of Mordy at 0 and a kill of 170 at 640,
\* both spawn at 720; the window of 170 ends at 725, that of Mordy at 960.
MinuteMarks == {0, 640, 720, 725, 960}
Offsets == {-1, 0, 1}
Instants ==
    {i \in {m * TicksPerMinute + o : m \in MinuteMarks, o \in Offsets} : i >= 0}
WholeMinutes == {m * TicksPerMinute : m \in MinuteMarks}

\* timedelta(minutes=m), in ticks
timedelta_minutes(m) == m * TicksPerMinute

\* int(td.total_seconds()): int() truncates toward zero
int_total_seconds(td) ==
    IF td >= 0 THEN td \div TicksPerSecond ELSE -((-td) \div TicksPerSecond)

\* Python's "x or None" values: a timedelta or an int, or None
Some(v) == [some |-> TRUE, v |-> v]
None_ == [some |-> FALSE, v |-> 0]

\* datetime values, and "no datetime" (None)
DT(t, tz) == [some |-> TRUE, t |-> t, tz |-> tz]
NoDT == [some |-> FALSE, t |-> 0, tz |-> "naive"]

\* datetime.now() on a machine whose local time is an hour ahead of UTC
now_local == DT(now + timedelta_minutes(60), "naive")

\* datetime.utcnow() is naive, datetime.now(timezone.utc) is aware
utcnow == DT(now, "naive")
get_current_utc == DT(now, "utc")

---------------------------------------------------------------------------
(* The values a timestamp field of a stored document can hold *)

Absent == [k |-> "absent", t |-> 0, tz |-> "naive"]   \* the key is not in the document
PyNone == [k |-> "none", t |-> 0, tz |-> "naive"]     \* None
BadStr == [k |-> "bad", t |-> 0, tz |-> "naive"]      \* a string fromisoformat rejects
IsoStr(t, tz) == [k |-> "iso", t |-> t, tz |-> tz]    \* an ISO-8601 string
EmptyString == [k |-> "empty", t |-> 0, tz |-> "naive"] \* ''
IntValue == [k |-> "int", t |-> 0, tz |-> "naive"]    \* a number that is not 0
DatetimeValue(dt) == [k |-> "datetime", t |-> dt.t, tz |-> dt.tz]  \* a datetime object

\* the zones of a timestamp: none, UTC, and one ahead of UTC
Zones == {"naive", "utc", "+05:00"}
\* dt.utcoffset(), in ticks (a naive datetime is read as UTC)
utcoffset(tz) == IF tz = "+05:00" THEN timedelta_minutes(300) ELSE 0

\* dt.isoformat()
isoformat(dt) == IsoStr(dt.t, dt.tz)

\* datetime.fromisoformat(s) succeeds (else ValueError / TypeError)
fromisoformat_ok(s) == s.k = "iso"
fromisoformat(s) == DT(s.t, s.tz)

\* truthiness of a field value: a non-empty string, a number that is not 0,
\* a datetime
Truthy(s) == s.k \in {"iso", "bad", "int", "datetime"}

\* doc.get(field): None when the key is absent
doc_get(doc, field) == IF doc[field].k = "absent" THEN PyNone ELSE doc[field]

TimeFields == {"kill_time", "spawn_time", "window_end_time"}

\* parse_timestamp without the UTC default: a naive timestamp stays naive
parse_timestamp_naive(timestamp_str) ==
    IF ~Truthy(timestamp_str) THEN NoDT
    ELSE IF fromisoformat_ok(timestamp_str) THEN fromisoformat(timestamp_str)
    ELSE NoDT

\* parse_timestamp that converts an aware timestamp to the reading of UTC and
\* keeps its zone
parse_timestamp_shifting(timestamp_str) ==
    IF ~Truthy(timestamp_str) THEN NoDT
    ELSE IF fromisoformat_ok(timestamp_str)
         THEN LET dt == fromisoformat(timestamp_str)
              IN IF dt.tz = "naive" THEN DT(dt.t, "utc")
                 ELSE DT(dt.t - utcoffset(dt.tz), dt.tz)
         ELSE NoDT

\* parse_timestamp that tags every timestamp UTC
parse_timestamp_retagged(timestamp_str) ==
    IF ~Truthy(timestamp_str) THEN NoDT
    ELSE IF fromisoformat_ok(timestamp_str)
         THEN DT(fromisoformat(timestamp_str).t, "utc")
         ELSE NoDT

parse_timestamp(timestamp_str) ==
    IF ~Truthy(timestamp_str) THEN NoDT
    ELSE IF fromisoformat_ok(timestamp_str)
         THEN LET dt == fromisoformat(timestamp_str)
              IN IF dt.tz = "naive" THEN DT(dt.t, "utc") ELSE dt
         ELSE NoDT

---------------------------------------------------------------------------
(* Catalog and accounts *)

\* The first and the third entry of BOSSES, a short and a long window; the
\* other eleven differ from these in their numbers only.
BOSSES ==
    << [name |-> "170", respawn_minutes |-> 80, window_minutes |-> 5],
       [name |-> "Mordy", respawn_minutes |-> 720, window_minutes |-> 240] >>

BossNames == {BOSSES[i].name : i \in 1..Len(BOSSES)}

found_boss(name) == name \in BossNames
get_boss_by_name(name) == CHOOSE b \in {BOSSES[i] : i \in 1..Len(BOSSES)} : b.name = name

\* The first two entries of ADMIN_USERS
ADMIN_USERS == [dontcallmeblack |-> "dcmb123", neveon |-> "sigmaboy"]

NoUser == "<none>"
NoUserField == "<absent>"

---------------------------------------------------------------------------
(* The timers collection *)

\* A document: name, the three timestamps and the user ('_id' is left out: no
\* code reads it and $set writes it back unchanged).
Doc(name, kill_time, spawn_time, window_end_time, user) ==
    [name |-> name, kill_time |-> kill_time, spawn_time |-> spawn_time,
     window_end_time |-> window_end_time, user |-> user]

\* checked_field without the check: the stored value is passed on as it is
checked_field_kept(value) == value

\* load_timers, the loop over the three fields: a field that is present and
\* does not parse (ValueError, TypeError) becomes None
checked_field(value) ==
    IF value.k # "absent" /\ ~fromisoformat_ok(value) THEN PyNone ELSE value

checked_doc(doc) ==
    Doc(doc.name, checked_field(doc.kill_time), checked_field(doc.spawn_time),
        checked_field(doc.window_end_time), doc.user)

\* The server as a request finds it: "up"; "unreachable", the ping of
\* get_mongodb_client raises; "failing", the ping is answered and every
\* operation on a collection raises.
MongoStates == {"up", "unreachable", "failing"}

\* get_mongodb_client() returns a client (TRUE) or None (FALSE)
get_mongodb_client == mongodb # "unreachable"

\* timers_collection.find() / update_one() return (TRUE) or raise (FALSE)
operation_ok == mongodb = "up"

\* timers_of without the test of the name: a document without a name is kept
\* under the key ''
timers_of_with_unnamed(all_docs) ==
    LET names == {doc.name : doc \in all_docs}
    IN [name \in names |-> checked_doc(CHOOSE doc \in all_docs : doc.name = name)]

\* the dict name -> document built from the documents find() returned;
\* documents without a name are left out
timers_of(all_docs) ==
    LET named == {doc \in all_docs : doc.name # ""}
        names == {doc.name : doc \in named}
    IN [name \in names |-> checked_doc(CHOOSE doc \in named : doc.name = name)]

\* load_timers without the failure paths: the documents, whatever the server does
load_timers_unguarded(collection) == timers_of(collection)

\* load_timers: {} when there is no client, {} when find() raised in each of
\* the attempts, else the dict of the attempt that succeeded
load_timers(collection) ==
    IF ~get_mongodb_client THEN timers_of({})
    ELSE IF ~operation_ok THEN timers_of({})
    ELSE timers_of(collection)

\* {'$set': timer_data} on a document: the keys of timer_data overwrite
set_value(old, new) == IF new.k = "absent" THEN old ELSE new

set_fields(doc, timer_data) ==
    Doc(timer_data.name,
        set_value(doc.kill_time, timer_data.kill_time),
        set_value(doc.spawn_time, timer_data.spawn_time),
        set_value(doc.window_end_time, timer_data.window_end_time),
        IF timer_data.user = NoUserField THEN doc.user ELSE timer_data.user)

\* insert_one in place of the upsert: a second document of the same name
insert_one_always(collection, boss_name, timer_data) ==
    collection \cup
        {set_fields(Doc(boss_name, Absent, Absent, Absent, NoUserField), timer_data)}

\* update_one({'name': boss_name}, {'$set': timer_data}, upsert=True): the
\* matching document is updated in place, and inserted when there is none
update_one_upsert(collection, boss_name, timer_data) ==
    IF \E doc \in collection : doc.name = boss_name
    THEN LET doc == CHOOSE d \in collection : d.name = boss_name
         IN (collection \ {doc}) \cup {set_fields(doc, timer_data)}
    ELSE collection \cup
            {set_fields(Doc(boss_name, Absent, Absent, Absent, NoUserField), timer_data)}

\* save_timer: the collection after the call; an exception of update_one is
\* caught (the function returns False) and nothing is written
save_timer(collection, boss_name, timer_data) ==
    IF operation_ok THEN update_one_upsert(collection, boss_name, timer_data)
    ELSE collection

---------------------------------------------------------------------------
(* format_remaining *)

plural(n) == IF n # 1 THEN "s" ELSE ""

\* a value that is not a timedelta: a str, an int, ... (py names its type)
NotTimedelta(py) == [some |-> TRUE, v |-> 0, py |-> py]
isinstance_timedelta(td) == td.some /\ "py" \notin DOMAIN td

\* what a call gives when an exception leaves it
Raised(exception) == "raised " \o exception

\* lines 450-463; td.total_seconds() of a value without that method raises
formatted(td) ==
    IF ~isinstance_timedelta(td) THEN Raised("AttributeError")
    ELSE LET total_seconds == int_total_seconds(td.v)
             days == total_seconds \div 86400
             hours == (total_seconds % 86400) \div 3600
             minutes == (total_seconds % 3600) \div 60
         IN IF total_seconds <= 0 THEN "Ready!"
            ELSE IF days > 0
                 THEN ToString(days) \o " day" \o plural(days) \o ", "
                      \o ToString(hours) \o " hr" \o plural(hours) \o ", "
                      \o ToString(minutes) \o " min" \o plural(minutes)
            ELSE IF hours > 0
                 THEN ToString(hours) \o " hr" \o plural(hours) \o ", "
                      \o ToString(minutes) \o " min" \o plural(minutes)
            ELSE ToString(minutes) \o " min" \o plural(minutes)

\* format_remaining without the check of line 446 and without the try
format_remaining_unchecked(td) == formatted(td)

\* td is Some(ticks), None_ or a NotTimedelta
format_remaining(td) ==
    IF ~td.some \/ ~isinstance_timedelta(td) THEN "N/A"
    ELSE IF formatted(td) = Raised("AttributeError") THEN "N/A"
    ELSE formatted(td)

---------------------------------------------------------------------------
(* index: the classification of one boss *)

\* lines 608-618: the fields read from the entry of the boss
timer_fields(timers, boss) ==
    IF boss.name \in DOMAIN timers
    THEN LET timer_entry == timers[boss.name]
         IN [last_kill |-> doc_get(timer_entry, "kill_time"),
             last_user |-> IF timer_entry.user = NoUserField THEN "N/A"
                           ELSE timer_entry.user,
             spawn_time |-> doc_get(timer_entry, "spawn_time"),
             window_end_time |-> doc_get(timer_entry, "window_end_time")]
    ELSE [last_kill |-> PyNone, last_user |-> "N/A",
          spawn_time |-> PyNone, window_end_time |-> PyNone]

dt_plus(dt, td) == DT(dt.t + td, dt.tz)
\* a - b of two datetimes raises TypeError when one is naive and one aware
dt_minus_ok(a, b) == (a.tz = "naive") <=> (b.tz = "naive")
dt_minus(a, b) == (a.t - utcoffset(a.tz)) - (b.t - utcoffset(b.tz))

Times(outcome, last_kill_dt, respawn_remaining, window_remaining,
      respawn_seconds, window_seconds) ==
    [outcome |-> outcome, last_kill_dt |-> last_kill_dt,
     respawn_remaining |-> respawn_remaining, window_remaining |-> window_remaining,
     respawn_seconds |-> respawn_seconds, window_seconds |-> window_seconds]

\* stored_or_derived without the stored value: always the schedule
stored_or_derived_never_stored(stored, derived) == derived

\* lines 626-632 and 634-640: the stored value when it parses, else the derived one
stored_or_derived(stored, derived) ==
    IF Truthy(stored)
    THEN LET parsed == parse_timestamp(stored)
         IN IF parsed.some THEN parsed ELSE derived
    ELSE derived

\* derived_window_end counted from the kill: last_kill_dt + window
derived_window_end_from_kill(boss, last_kill_dt, spawn_dt) ==
    dt_plus(last_kill_dt, timedelta_minutes(boss.window_minutes))

\* lines 638 and 640: spawn_dt + timedelta(minutes=boss['window_minutes'])
derived_window_end(boss, last_kill_dt, spawn_dt) ==
    dt_plus(spawn_dt, timedelta_minutes(boss.window_minutes))

\* lines 642-645
remaining_seconds(dt, now_dt) == int_total_seconds(dt_minus(dt, now_dt))

\* lines 620-648: outcome is "ok", "continue" (the boss is skipped) or "raise"
boss_times(boss, f, now_dt) ==
    IF Truthy(f.last_kill)
    THEN LET last_kill_dt == parse_timestamp(f.last_kill)
             spawn_dt ==
                 stored_or_derived(f.spawn_time,
                     dt_plus(last_kill_dt, timedelta_minutes(boss.respawn_minutes)))
             window_end_dt ==
                 stored_or_derived(f.window_end_time,
                     derived_window_end(boss, last_kill_dt, spawn_dt))
         IN IF ~last_kill_dt.some
            THEN Times("continue", NoDT, None_, None_, None_, None_)
            ELSE IF ~(dt_minus_ok(spawn_dt, now_dt) /\ dt_minus_ok(window_end_dt, now_dt))
            THEN Times("raise", NoDT, None_, None_, None_, None_)
            ELSE Times("ok", last_kill_dt,
                       Some(dt_minus(spawn_dt, now_dt)),
                       Some(dt_minus(window_end_dt, now_dt)),
                       Some(remaining_seconds(spawn_dt, now_dt)),
                       Some(remaining_seconds(window_end_dt, now_dt)))
    ELSE Times("ok", NoDT, None_, None_, None_, None_)

\* The values of boss_info: an int or '' for the seconds, and the text
\* strftime('%Y-%m-%d %H:%M UTC') gives (the minute of the instant) or 'N/A'
IntVal(n) == [isint |-> TRUE, v |-> n]
EmptyStr == [isint |-> FALSE, v |-> 0]
strftime_minute(dt) == [na |-> FALSE, minute |-> dt.t \div TicksPerMinute]
NotAvailable == [na |-> TRUE, minute |-> 0]

\* line 651: a timedelta is falsy when it is zero
window_shown(last_kill, respawn_remaining) ==
    /\ Truthy(last_kill)
    /\ respawn_remaining.some /\ respawn_remaining.v # 0
    /\ respawn_remaining.v <= 0

\* boss_info without the "if last_kill else" defaults of lines 660-664
boss_info_no_default(boss, f, c) ==
    [name |-> boss.name,
     respawn |-> format_remaining(c.respawn_remaining),
     respawn_seconds |-> IntVal(c.respawn_seconds.v),
     window_end |-> "",
     window_seconds |-> EmptyStr,
     last_kill |-> NotAvailable,
     last_user |-> f.last_user]

\* lines 650-666
boss_info(boss, f, c) ==
    LET shown == window_shown(f.last_kill, c.respawn_remaining)
        window_end_display == IF shown THEN format_remaining(c.window_remaining) ELSE ""
        window_seconds_display == IF shown THEN IntVal(c.window_seconds.v) ELSE EmptyStr
    IN [name |-> boss.name,
        respawn |-> IF Truthy(f.last_kill) THEN format_remaining(c.respawn_remaining)
                    ELSE "N/A",
        respawn_seconds |-> IF Truthy(f.last_kill) THEN IntVal(c.respawn_seconds.v)
                            ELSE EmptyStr,
        window_end |-> IF Truthy(f.last_kill) THEN window_end_display ELSE "N/A",
        window_seconds |-> IF Truthy(f.last_kill) THEN window_seconds_display
                           ELSE EmptyStr,
        last_kill |-> IF Truthy(f.last_kill) THEN strftime_minute(c.last_kill_dt)
                      ELSE NotAvailable,
        last_user |-> f.last_user]

\* category with the window compared by < : a boss is still Due at window_end_time
category_window_strict(last_kill, respawn_seconds, window_seconds) ==
    IF Truthy(last_kill) /\ respawn_seconds.some
    THEN IF respawn_seconds.v <= 0
         THEN IF window_seconds.some /\ window_seconds.v < 0
              THEN "lost"
              ELSE "due"
         ELSE "upcoming"
    ELSE "upcoming"

\* lines 668-683
category(last_kill, respawn_seconds, window_seconds) ==
    IF Truthy(last_kill) /\ respawn_seconds.some
    THEN IF respawn_seconds.v <= 0
         THEN IF window_seconds.some /\ window_seconds.v <= 0
              THEN "lost"
              ELSE "due"
         ELSE "upcoming"
    ELSE "upcoming"

---------------------------------------------------------------------------
(* index: the three lists *)

\* list.sort(key=...) is stable: equal keys keep the order they were appended in
StableSort(seq, Before(_, _)) ==
    LET n == Len(seq)
        rank(i) == 1 + Cardinality({j \in 1..n :
                        \/ Before(seq[j], seq[i])
                        \/ (~Before(seq[i], seq[j]) /\ j < i)})
    IN [p \in 1..n |-> seq[CHOOSE i \in 1..n : rank(i) = p]]

\* the sort keys of lines 686 and 689: the seconds when an int > 0, else inf
sort_key(seconds) ==
    IF seconds.isint /\ seconds.v > 0 THEN [inf |-> FALSE, v |-> seconds.v]
    ELSE [inf |-> TRUE, v |-> 0]
key_less(a, b) == ~a.inf /\ (b.inf \/ a.v < b.v)

\* upcoming_before with reverse=True
upcoming_before_reversed(a, b) ==
    key_less(sort_key(b.respawn_seconds), sort_key(a.respawn_seconds))

upcoming_before(a, b) == key_less(sort_key(a.respawn_seconds), sort_key(b.respawn_seconds))
due_before(a, b) == key_less(sort_key(a.window_seconds), sort_key(b.window_seconds))
\* line 692: by the last_kill text, reverse=True
lost_before(a, b) == a.last_kill.minute > b.last_kill.minute

\* one pass of the loop of lines 607-683 for the i-th boss: how the pass ends
\* ("ok", "continue", "raise"), the list it appends to, and the entry appended
pass_outcome(timers, now_dt, i) ==
    boss_times(BOSSES[i], timer_fields(timers, BOSSES[i]), now_dt).outcome

pass_list(timers, now_dt, i) ==
    LET boss == BOSSES[i]
        f == timer_fields(timers, boss)
        c == boss_times(boss, f, now_dt)
    IN IF c.outcome = "ok"
       THEN category(f.last_kill, c.respawn_seconds, c.window_seconds)
       ELSE "none"

pass_info(timers, now_dt, i) ==
    LET boss == BOSSES[i]
        f == timer_fields(timers, boss)
    IN boss_info(boss, f, boss_times(boss, f, now_dt))

RECURSIVE appended(_, _, _, _)
appended(timers, now_dt, list, i) ==
    IF i = 0 THEN << >>
    ELSE LET before == appended(timers, now_dt, list, i - 1)
         IN IF pass_list(timers, now_dt, i) = list
            THEN Append(before, pass_info(timers, now_dt, i))
            ELSE before

\* lines 599-692: raised is TRUE when the request ends in an exception
index(timers, now_dt) ==
    LET raised == \E i \in 1..Len(BOSSES) : pass_outcome(timers, now_dt, i) = "raise"
    IN [raised |-> raised,
        due_bosses |-> IF raised THEN << >>
            ELSE StableSort(appended(timers, now_dt, "due", Len(BOSSES)), due_before),
        upcoming_bosses |-> IF raised THEN << >>
            ELSE StableSort(appended(timers, now_dt, "upcoming", Len(BOSSES)), upcoming_before),
        lost_bosses |-> IF raised THEN << >>
            ELSE StableSort(appended(timers, now_dt, "lost", Len(BOSSES)), lost_before)]

---------------------------------------------------------------------------
(* Accounts and the session *)

\* The users and pending_users collections are sequences, in the order of
\* insertion; '_id' is left out.
\* the place of the first document of the username, 0 when there is none
find_index(collection, username) ==
    LET found == {i \in 1..Len(collection) : collection[i].username = username}
    IN IF found = {} THEN 0 ELSE CHOOSE i \in found : \A j \in found : i <= j

\* find_one({'username': username}): at most one document, the first
find_user(collection, username) ==
    IF find_index(collection, username) = 0 THEN {}
    ELSE {collection[find_index(collection, username)]}

insert_one(collection, document) == Append(collection, document)

\* delete_one({'username': username}): the first document of the username goes
delete_one(collection, username) ==
    LET at == find_index(collection, username)
    IN IF at = 0 THEN collection
       ELSE [i \in 1..(Len(collection) - 1) |->
                IF i < at THEN collection[i] ELSE collection[i + 1]]

\* str.strip() on the usernames of the requests
strip(username) ==
    IF username = " bob" THEN "bob"
    ELSE IF username = " " THEN ""
    ELSE username

\* authenticate_user over a given users collection
authenticate(users, username, password) ==
    IF username \in DOMAIN ADMIN_USERS /\ ADMIN_USERS[username] = password
    THEN [ok |-> TRUE, is_admin |-> TRUE]
    ELSE IF \E u \in find_user(users, username) :
                u.password = password /\ u.is_approved
    THEN [ok |-> TRUE,
          is_admin |-> (CHOOSE u \in find_user(users, username) : TRUE).is_admin]
    ELSE [ok |-> FALSE, is_admin |-> FALSE]

\* authenticate_user: the user record, or None ([ok |-> FALSE])
authenticate_user(username, password) ==
    authenticate(users_collection, username, password)

\* approve_user, lines 245-289: the pending document found, or none
pending_found(username) ==
    IF find_user(pending_users_collection, username) # {}
    THEN find_user(pending_users_collection, username)
    ELSE IF strip(username) # username
    THEN find_user(pending_users_collection, strip(username))
    ELSE {}

approved_found(username) ==
    IF find_user(users_collection, username) # {}
    THEN find_user(users_collection, username)
    ELSE IF strip(username) # username
    THEN find_user(users_collection, strip(username))
    ELSE {}

user_data(pending_user) ==
    [username |-> pending_user.username, password |-> pending_user.password,
     created_at |-> pending_user.created_at, is_approved |-> TRUE, is_admin |-> FALSE]

\* the two collections after approve_user(username)
approve_user(username) ==
    IF pending_found(username) = {}
    THEN [success |-> FALSE, users |-> users_collection,
          pending |-> pending_users_collection]
    ELSE LET pending_user == CHOOSE u \in pending_found(username) : TRUE
         IN [success |-> TRUE,
             users |-> insert_one(users_collection, user_data(pending_user)),
             pending |-> delete_one(pending_users_collection, pending_user.username)]

\* the two collections after remove_user(username), lines 291-332
remove_user(username) ==
    LET pending_1 == IF pending_found(username) = {} THEN pending_users_collection
                     ELSE delete_one(pending_users_collection,
                                     (CHOOSE u \in pending_found(username) : TRUE).username)
        users_1 == IF approved_found(username) = {} THEN users_collection
                   ELSE delete_one(users_collection,
                                   (CHOOSE u \in approved_found(username) : TRUE).username)
    IN [users |-> delete_one(users_1, username),
        pending |-> delete_one(pending_1, username)]

\* lines 790 and 810, without the test of the username
access_denied_flag_only == ~session.is_admin

\* the check of the session left out: every request counts as logged in
logged_in_always == TRUE

logged_in == session.username # NoUser

\* lines 790 and 810: 'username' not in session or not session.get('is_admin')
access_denied == ~logged_in \/ ~session.is_admin

Response(route, boss, flash) == [route |-> route, boss |-> boss, flash |-> flash]
NoResponse == Response("", "", "")

---------------------------------------------------------------------------
(* The requests *)

\* the inputs the requests are drawn from
LoginAttempts ==
    {<<"dontcallmeblack", "dcmb123">>, <<"neveon", "sigmaboy">>, <<"neveon", "wind123">>}
RequestedBosses == BossNames \cup {"Hrung"}
Methods == {"GET", "POST"}
MinutesInputs == {IntVal(5), IntVal(80), IntVal(85), IntVal(0), IntVal(-5), EmptyStr}

\* no index request has rendered at the current instant; no edit request is
\* under way; no function is being called
NoRender == [done |-> FALSE]
MaxRequests == 2
IdleRequest == [stage |-> "idle"]
NoRequests == [id \in 1..MaxRequests |-> IdleRequest]
NoCall == [fn |-> "", returned |-> FALSE]
\* a session cookie with nothing in it
NoSession == [username |-> NoUser, is_admin |-> FALSE]

Init ==
    /\ now = 0
    /\ timers_collection = {}
    /\ mongodb = "up"
    /\ users_collection = << >>
    /\ pending_users_collection = << >>
    /\ session = [username |-> NoUser, is_admin |-> FALSE]
    /\ response = NoResponse
    /\ rendered = NoRender
    /\ inflight = NoRequests
    /\ call = NoCall
    /\ other_session = NoSession

\* time passes between two requests
Tick ==
    /\ \E t \in Instants : t > now /\ now' = t
    /\ response' = NoResponse
    /\ rendered' = NoRender
    /\ UNCHANGED <<timers_collection, mongodb, users_collection, pending_users_collection, session>>
    /\ UNCHANGED <<inflight, call>>
    /\ UNCHANGED other_session

\* login that sets is_admin for an admin and never clears it
login_keeping_flag(username, password) ==
    LET user == authenticate_user(username, password)
    IN /\ IF user.ok
          THEN /\ session' = [username |-> username,
                              is_admin |-> session.is_admin \/ user.is_admin]
               /\ response' = Response("login", "", "Logged in successfully.")
          ELSE /\ session' = session
               /\ response' = Response("login", "", "Invalid username or password.")
       /\ UNCHANGED <<now, timers_collection, mongodb, users_collection, pending_users_collection,
                    rendered, inflight, call>>
    /\ UNCHANGED other_session

\* login, POST
login(username, password) ==
    LET user == authenticate_user(username, password)
    IN /\ IF user.ok
          THEN /\ session' = [username |-> username, is_admin |-> user.is_admin]
               /\ response' = Response("login", "", "Logged in successfully.")
          ELSE /\ session' = session
               /\ response' = Response("login", "", "Invalid username or password.")
       /\ UNCHANGED <<now, timers_collection, mongodb, users_collection, pending_users_collection,
                    rendered, inflight, call>>
    /\ UNCHANGED other_session

\* logout: session.pop('username', None)
logout ==
    /\ session' = [session EXCEPT !.username = NoUser]
    /\ response' = Response("logout", "", "Logged out.")
    /\ UNCHANGED <<now, timers_collection, mongodb, users_collection, pending_users_collection,
                    rendered, inflight, call>>
    /\ UNCHANGED other_session

\* reset_timer_data with the spawn time taken from the window minutes
reset_timer_data_window(boss, kill_dt, username) ==
    LET spawn_dt == dt_plus(kill_dt, timedelta_minutes(boss.window_minutes))
        window_end_dt == dt_plus(spawn_dt, timedelta_minutes(boss.window_minutes))
    IN Doc(boss.name, isoformat(kill_dt), isoformat(spawn_dt),
           isoformat(window_end_dt), username)

\* reset_timer_data with the window counted from the kill, not from the spawn
reset_timer_data_window_from_kill(boss, kill_dt, username) ==
    LET spawn_dt == dt_plus(kill_dt, timedelta_minutes(boss.respawn_minutes))
        window_end_dt == dt_plus(kill_dt, timedelta_minutes(boss.window_minutes))
    IN Doc(boss.name, isoformat(kill_dt), isoformat(spawn_dt),
           isoformat(window_end_dt), username)

\* reset, lines 845-853: the event written for a kill at kill_dt
reset_timer_data(boss, kill_dt, username) ==
    LET spawn_dt == dt_plus(kill_dt, timedelta_minutes(boss.respawn_minutes))
        window_end_dt == dt_plus(spawn_dt, timedelta_minutes(boss.window_minutes))
    IN Doc(boss.name, isoformat(kill_dt), isoformat(spawn_dt),
           isoformat(window_end_dt), username)

reset(boss_name, method) ==
    /\ IF ~logged_in
       THEN /\ response' = Response("reset", boss_name, "You must be logged in to reset timers.")
            /\ UNCHANGED timers_collection
       ELSE IF ~found_boss(boss_name)
       THEN /\ response' = Response("reset", boss_name, "Boss not found.")
            /\ UNCHANGED timers_collection
       ELSE IF method = "POST"
       THEN /\ timers_collection' =
                    save_timer(timers_collection, boss_name,
                        reset_timer_data(get_boss_by_name(boss_name), utcnow,
                                         session.username))
            /\ response' = Response("reset", boss_name, boss_name \o " timer reset!")
       ELSE /\ response' = Response("reset", boss_name, "")
            /\ UNCHANGED timers_collection
    /\ UNCHANGED <<now, mongodb, users_collection, pending_users_collection, session>>
    /\ UNCHANGED <<rendered, inflight, call>>
    /\ UNCHANGED other_session

\* edited_field with the sign turned: the field moves forward
edited_field_forward(value, minutes) ==
    IF Truthy(value)
    THEN LET dt == fromisoformat(value)
         IN isoformat(dt_plus(dt, timedelta_minutes(minutes)))
    ELSE value

\* edited_field with timedelta(seconds=minutes)
edited_field_seconds(value, minutes) ==
    IF Truthy(value)
    THEN LET dt == fromisoformat(value)
         IN isoformat(dt_plus(dt, -(minutes * TicksPerSecond)))
    ELSE value

\* edit, lines 889-893: one field moved back by minutes
edited_field(value, minutes) ==
    IF Truthy(value)
    THEN LET dt == fromisoformat(value)
         IN isoformat(dt_plus(dt, -timedelta_minutes(minutes)))
    ELSE value

edited_entry(timer_entry, minutes) ==
    Doc(timer_entry.name,
        edited_field(timer_entry.kill_time, minutes),
        edited_field(timer_entry.spawn_time, minutes),
        edited_field(timer_entry.window_end_time, minutes),
        timer_entry.user)

\* not_positive with < in place of <= : an edit by 0 minutes goes through
not_positive_strict(minutes) == minutes.v < 0

\* edit, line 882: minutes <= 0
not_positive(minutes) == minutes.v <= 0

\* The model follows an edit only when the kill instant each moved field stands
\* for is again one of the instants of the model.
EditInBounds(boss, timer_entry, minutes) ==
    LET back == timedelta_minutes(minutes)
        respawn == timedelta_minutes(boss.respawn_minutes)
        window == timedelta_minutes(boss.window_minutes)
        ok(value, after) == Truthy(value) => (value.t - after - back) \in Instants
    IN /\ ok(timer_entry.kill_time, 0)
       /\ ok(timer_entry.spawn_time, respawn)
       /\ ok(timer_entry.window_end_time, respawn + window)

edit(boss_name, method, minutes) ==
    /\ IF ~logged_in
       THEN /\ response' = Response("edit", boss_name, "You must be logged in to edit timers.")
            /\ UNCHANGED timers_collection
       ELSE IF ~found_boss(boss_name)
       THEN /\ response' = Response("edit", boss_name, "Boss not found.")
            /\ UNCHANGED timers_collection
       ELSE IF boss_name \notin DOMAIN load_timers(timers_collection)
       THEN /\ response' = Response("edit", boss_name, "No timer to edit for this boss.")
            /\ UNCHANGED timers_collection
       ELSE IF method = "GET"
       THEN /\ response' = Response("edit", boss_name, "")
            /\ UNCHANGED timers_collection
       ELSE IF ~minutes.isint
       THEN /\ response' = Response("edit", boss_name, "Invalid input.")
            /\ UNCHANGED timers_collection
       ELSE IF not_positive(minutes)
       THEN /\ response' = Response("edit", boss_name, "Please enter a positive number of minutes.")
            /\ UNCHANGED timers_collection
       ELSE LET timer_entry == load_timers(timers_collection)[boss_name]
            IN /\ EditInBounds(get_boss_by_name(boss_name), timer_entry, minutes.v)
               /\ timers_collection' =
                      save_timer(timers_collection, boss_name,
                                 edited_entry(timer_entry, minutes.v))
               /\ response' = Response("edit", boss_name,
                      boss_name \o " timer reduced by " \o ToString(minutes.v) \o " minutes!")
    /\ UNCHANGED <<now, mongodb, users_collection, pending_users_collection, session>>
    /\ UNCHANGED <<rendered, inflight, call>>
    /\ UNCHANGED other_session

Next ==
    \/ Tick
    \/ \E a \in LoginAttempts : login(a[1], a[2])
    \/ logout
    \/ \E boss_name \in RequestedBosses, method \in Methods : reset(boss_name, method)
    \/ \E boss_name \in RequestedBosses : edit(boss_name, "GET", EmptyStr)
    \/ \E boss_name \in RequestedBosses, minutes \in MinutesInputs :
            edit(boss_name, "POST", minutes)

Spec == Init /\ [][Next]_vars

---------------------------------------------------------------------------
(* The store with data-quality faults: fields that do not parse or are     *)
(* missing, documents of names the catalog does not have                   *)

MaxFaults == 2

NumFaults ==
    Cardinality({x \in timers_collection \X TimeFields : x[1][x[2]].k # "iso"})
    + Cardinality({doc \in timers_collection : doc.name \notin BossNames})

with_field(doc, field, value) ==
    Doc(doc.name,
        IF field = "kill_time" THEN value ELSE doc.kill_time,
        IF field = "spawn_time" THEN value ELSE doc.spawn_time,
        IF field = "window_end_time" THEN value ELSE doc.window_end_time,
        doc.user)

\* a stored timestamp is damaged (BadStr) or lost (Absent) outside the requests
StoreFault(boss_name, field, value) ==
    /\ NumFaults < MaxFaults
    /\ \E doc \in timers_collection :
          /\ doc.name = boss_name
          /\ doc[field].k = "iso"
          /\ timers_collection' = (timers_collection \ {doc}) \cup {with_field(doc, field, value)}
    /\ response' = NoResponse
    /\ UNCHANGED <<now, mongodb, users_collection, pending_users_collection, session>>
    /\ UNCHANGED <<rendered, inflight, call>>
    /\ UNCHANGED other_session

\* a document of a boss the catalog of index.py does not have ('Hrung' is in the
\* catalog of fix_timestamps.py only)
StrayDocument ==
    /\ NumFaults < MaxFaults
    /\ ~\E doc \in timers_collection : doc.name = "Hrung"
    /\ timers_collection' = timers_collection \cup
            {Doc("Hrung", isoformat(utcnow),
                 isoformat(dt_plus(utcnow, timedelta_minutes(1320))),
                 isoformat(dt_plus(utcnow, timedelta_minutes(1320 + 1080))),
                 "dontcallmeblack")}
    /\ response' = NoResponse
    /\ UNCHANGED <<now, mongodb, users_collection, pending_users_collection, session>>
    /\ UNCHANGED <<rendered, inflight, call>>
    /\ UNCHANGED other_session

\* reset_mordy.py is run: the event of Mordy is overwritten with the timestamps
\* the script holds, a spawn 20 h after the kill and a window of 16 h (the
\* kill it names is the first instant of the model)
reset_mordy ==
    /\ timers_collection' =
            update_one_upsert(timers_collection, "Mordy",
                Doc("Mordy", IsoStr(0, "naive"),
                    IsoStr(timedelta_minutes(1200), "naive"),
                    IsoStr(timedelta_minutes(1200 + 960), "naive"),
                    "dontcallmeblack"))
    /\ response' = NoResponse
    /\ UNCHANGED <<now, mongodb, users_collection, pending_users_collection, session>>
    /\ UNCHANGED <<rendered, inflight, call>>
    /\ UNCHANGED other_session

\* time passes, to a whole minute
TickMinute ==
    /\ \E t \in WholeMinutes : t > now /\ now' = t
    /\ response' = NoResponse
    /\ rendered' = NoRender
    /\ UNCHANGED <<timers_collection, mongodb, users_collection, pending_users_collection, session>>
    /\ UNCHANGED <<inflight, call>>
    /\ UNCHANGED other_session

\* the state after dontcallmeblack logged in
InitDQ ==
    /\ now = 0
    /\ timers_collection = {}
    /\ mongodb = "up"
    /\ users_collection = << >>
    /\ pending_users_collection = << >>
    /\ session = [username |-> "dontcallmeblack", is_admin |-> TRUE]
    /\ response = NoResponse
    /\ rendered = NoRender
    /\ inflight = NoRequests
    /\ call = NoCall
    /\ other_session = NoSession

NextDQ ==
    \/ TickMinute
    \/ \E boss_name \in BossNames : reset(boss_name, "POST")
    \/ \E boss_name \in BossNames, minutes \in {IntVal(5), IntVal(85)} :
            edit(boss_name, "POST", minutes)
    \/ \E boss_name \in BossNames, field \in TimeFields, value \in {BadStr, Absent} :
            StoreFault(boss_name, field, value)
    \/ StrayDocument
    \/ reset_mordy

SpecDQ == InitDQ /\ [][NextDQ]_vars

---------------------------------------------------------------------------
(* The store out of reach: the server stops answering and comes back        *)

\* the server changes between "up", "unreachable" and "failing"
server_change(state) ==
    /\ state # mongodb
    /\ mongodb' = state
    /\ response' = NoResponse
    /\ UNCHANGED <<now, timers_collection, users_collection,
                   pending_users_collection, session, rendered, inflight, call>>
    /\ UNCHANGED other_session

\* dontcallmeblack is logged in; the server is in any of its states
InitSU ==
    /\ now = 0
    /\ timers_collection = {}
    /\ mongodb \in MongoStates
    /\ users_collection = << >>
    /\ pending_users_collection = << >>
    /\ session = [username |-> "dontcallmeblack", is_admin |-> TRUE]
    /\ response = NoResponse
    /\ rendered = NoRender
    /\ inflight = NoRequests
    /\ call = NoCall
    /\ other_session = NoSession

NextSU ==
    \/ TickMinute
    \/ \E state \in MongoStates : server_change(state)
    \/ \E boss_name \in BossNames : reset(boss_name, "POST")
    \/ \E boss_name \in RequestedBosses, minutes \in MinutesInputs :
            edit(boss_name, "POST", minutes)

SpecSU == InitSU /\ [][NextSU]_vars

---------------------------------------------------------------------------
(* The index request *)

\* one pass of index: what it loaded, its instant, the lists and the username
\* it hands to the template
index_pass ==
    [timers |-> load_timers(timers_collection), now |-> now,
     view |-> index(load_timers(timers_collection), get_current_utc),
     username |-> session.username]

\* the first and the last pass at the current instant
recorded(pass) ==
    IF rendered.done THEN [rendered EXCEPT !.last = pass]
    ELSE [done |-> TRUE, first |-> pass, last |-> pass]

\* index that writes back what load_timers returned, as edit does
index_request_saving ==
    /\ logged_in
    /\ response' = Response("index", "", "")
    /\ rendered' = recorded(index_pass)
    /\ timers_collection' =
            {checked_doc(doc) : doc \in {d \in timers_collection : d.name # ""}}
    /\ UNCHANGED <<now, mongodb, users_collection, pending_users_collection, session,
                   inflight, call>>
    /\ UNCHANGED other_session

\* index with the three lists kept in globals of the module: each pass appends
\* to the lists of the pass before
index_request_global_lists ==
    /\ logged_in
    /\ response' = Response("index", "", "")
    /\ rendered' = recorded(
            IF rendered.done
            THEN [index_pass EXCEPT
                    !.view.due_bosses = rendered.last.view.due_bosses \o @,
                    !.view.upcoming_bosses = rendered.last.view.upcoming_bosses \o @,
                    !.view.lost_bosses = rendered.last.view.lost_bosses \o @]
            ELSE index_pass)
    /\ UNCHANGED <<now, timers_collection, mongodb, users_collection,
                   pending_users_collection, session, inflight, call>>
    /\ UNCHANGED other_session

\* index, lines 594-700: a GET of '/'
index_request ==
    /\ IF ~logged_in
       THEN /\ response' = Response("index", "", "You must be logged in to view timers.")
            /\ UNCHANGED rendered
       ELSE /\ response' = Response("index", "", "")
            /\ rendered' = recorded(index_pass)
    /\ UNCHANGED <<now, timers_collection, mongodb, users_collection,
                   pending_users_collection, session, inflight, call>>
    /\ UNCHANGED other_session

NextIx ==
    \/ TickMinute
    \/ \E a \in {<<"dontcallmeblack", "dcmb123">>, <<"neveon", "sigmaboy">>} :
            login(a[1], a[2])
    \/ logout
    \/ reset("170", "POST")
    \/ StoreFault("170", "spawn_time", BadStr)
    \/ index_request

SpecIx == Init /\ [][NextIx]_vars

---------------------------------------------------------------------------
(* Registration and the admin requests *)

MaxAccounts == 3

\* register, POST
register(username, password) ==
    /\ IF strip(username) = "" \/ password = ""
       THEN /\ response' = Response("register", "", "Username and password are required.")
            /\ UNCHANGED pending_users_collection
       ELSE IF find_user(users_collection, strip(username)) # {}
               \/ strip(username) \in DOMAIN ADMIN_USERS
       THEN /\ response' = Response("register", "", "Username already exists.")
            /\ UNCHANGED pending_users_collection
       ELSE /\ Len(users_collection) + Len(pending_users_collection) < MaxAccounts
            /\ pending_users_collection' = insert_one(pending_users_collection,
                    [username |-> strip(username), password |-> password,
                     created_at |-> isoformat(utcnow)])
            /\ response' = Response("register", "",
                    "Registration submitted! Please wait for admin approval.")
    /\ UNCHANGED <<now, timers_collection, mongodb, users_collection, session,
                   rendered, inflight, call>>
    /\ UNCHANGED other_session

approve_user_route(username) ==
    /\ IF access_denied
       THEN /\ response' = Response("approve", "", "Access denied. Admin privileges required.")
            /\ UNCHANGED <<users_collection, pending_users_collection>>
       ELSE /\ users_collection' = approve_user(username).users
            /\ pending_users_collection' = approve_user(username).pending
            /\ response' = Response("approve", "",
                    IF approve_user(username).success
                    THEN "User " \o username \o " approved successfully."
                    ELSE "Failed to approve user " \o username
                         \o ". User may not exist in pending list.")
    /\ UNCHANGED <<now, timers_collection, mongodb, session, rendered, inflight, call>>
    /\ UNCHANGED other_session

remove_user_route(username) ==
    /\ IF access_denied
       THEN /\ response' = Response("remove", "", "Access denied. Admin privileges required.")
            /\ UNCHANGED <<users_collection, pending_users_collection>>
       ELSE IF username = session.username
       THEN /\ response' = Response("remove", "", "You cannot remove yourself.")
            /\ UNCHANGED <<users_collection, pending_users_collection>>
       ELSE /\ users_collection' = remove_user(username).users
            /\ pending_users_collection' = remove_user(username).pending
            /\ response' = Response("remove", "",
                    "User " \o username \o " removed successfully.")
    /\ UNCHANGED <<now, timers_collection, mongodb, session, rendered, inflight, call>>
    /\ UNCHANGED other_session

\* the usernames and passwords of the account requests
Usernames == {"bob", " bob", "amy", "neveon", " "}
Passwords == {"pw1", "pw2", ""}
AccountLogins ==
    {<<"dontcallmeblack", "dcmb123">>, <<"bob", "pw1">>, <<"bob", "pw2">>, <<"amy", "pw1">>}

NextAcc ==
    \/ \E username \in Usernames, password \in Passwords : register(username, password)
    \/ \E a \in AccountLogins : login(a[1], a[2])
    \/ logout
    \/ \E username \in Usernames : approve_user_route(username)
    \/ \E username \in Usernames \cup {"dontcallmeblack"} : remove_user_route(username)

SpecAcc == Init /\ [][NextAcc]_vars

---------------------------------------------------------------------------
(* Two clients: each keeps its own session cookie, and session is the *)
(* cookie of the client whose request comes next                      *)

other_client ==
    /\ session' = other_session
    /\ other_session' = session
    /\ response' = NoResponse
    /\ UNCHANGED <<now, timers_collection, mongodb, users_collection,
                   pending_users_collection, rendered, inflight, call>>

NextRm ==
    \/ TickMinute
    \/ other_client
    \/ register("bob", "pw1")
    \/ \E a \in {<<"dontcallmeblack", "dcmb123">>, <<"bob", "pw1">>} : login(a[1], a[2])
    \/ approve_user_route("bob")
    \/ remove_user_route("bob")
    \/ reset("170", "POST")
    \/ edit("170", "POST", IntVal(5))

SpecRm == Init /\ [][NextRm]_vars

---------------------------------------------------------------------------
(* load_timers, attempt by attempt: the server may change between the *)
(* attempts of one call                                               *)

max_retries == 3

\* the loop goes on after retry_count failures, with one more allowed
may_retry_once_more(retry_count) == retry_count <= max_retries

\* lines 375 and 413: retry_count < max_retries
may_retry(retry_count) == retry_count < max_retries

\* what a stored field can hold, and the stores a call is made on: a document
\* of 170 with any of them in each field, alone, with a document without a
\* name, or with a document of Mordy
FieldValues == {IsoStr(0, "naive"), BadStr, Absent, PyNone, IntValue}
StoreSamples ==
    {{Doc("170", k, sp, w, "neveon")} \cup others :
        k \in FieldValues, sp \in FieldValues, w \in FieldValues,
        others \in {{},
                    {Doc("", IsoStr(0, "naive"), BadStr, Absent, "neveon")},
                    {Doc("Mordy", IsoStr(0, "naive"), BadStr, Absent, "neveon")}}}
    \cup {{}}

LoadCall(stage, retry_count, reads, returned, value) ==
    [fn |-> "load_timers", stage |-> stage, retry_count |-> retry_count,
     reads |-> reads, returned |-> returned, value |-> value]

InitLT ==
    /\ now = 0
    /\ timers_collection \in StoreSamples
    /\ mongodb \in MongoStates
    /\ users_collection = << >>
    /\ pending_users_collection = << >>
    /\ session = [username |-> "dontcallmeblack", is_admin |-> TRUE]
    /\ response = NoResponse
    /\ rendered = NoRender
    /\ inflight = NoRequests
    /\ call = LoadCall("connect", 0, 0, FALSE, timers_of({}))
    /\ other_session = NoSession

\* lines 367-370: no client, no read
load_timers_connect ==
    /\ call.fn = "load_timers"
    /\ call.stage = "connect"
    /\ call' = IF ~get_mongodb_client
               THEN LoadCall("done", 0, 0, TRUE, timers_of({}))
               ELSE LoadCall("loop", 0, 0, FALSE, timers_of({}))
    /\ UNCHANGED <<now, timers_collection, mongodb, users_collection,
                   pending_users_collection, session, response, rendered, inflight>>
    /\ UNCHANGED other_session

\* lines 375-420: one pass of the while loop, one find()
load_timers_attempt ==
    /\ call.fn = "load_timers"
    /\ call.stage = "loop"
    /\ may_retry(call.retry_count)
    /\ call' = IF operation_ok
               THEN LoadCall("done", call.retry_count, call.reads + 1, TRUE,
                             timers_of(timers_collection))
               ELSE IF may_retry(call.retry_count + 1)
               THEN LoadCall("loop", call.retry_count + 1, call.reads + 1, FALSE,
                             timers_of({}))
               ELSE LoadCall("done", call.retry_count + 1, call.reads + 1, TRUE,
                             timers_of({}))
    /\ UNCHANGED <<now, timers_collection, mongodb, users_collection,
                   pending_users_collection, session, response, rendered, inflight>>
    /\ UNCHANGED other_session

NextLT ==
    \/ load_timers_connect
    \/ load_timers_attempt
    \/ \E state \in MongoStates : server_change(state)

SpecLT == InitLT /\ [][NextLT]_vars

\* a call that has started goes on: the request thread is not stopped
FairLT == SpecLT /\ WF_vars(load_timers_connect \/ load_timers_attempt)

---------------------------------------------------------------------------
(* Requests that run at the same time: an edit is two steps, its load_timers *)
(* (line 874) and its save_timer (line 894), and other requests run between  *)

\* edit, POST, lines 867-887: the checks and the load of request id
edit_begin(id, boss_name, minutes) ==
    /\ inflight[id].stage = "idle"
    /\ IF ~logged_in
       THEN /\ response' = Response("edit", boss_name, "You must be logged in to edit timers.")
            /\ inflight' = [inflight EXCEPT ![id] = [stage |-> "refused"]]
       ELSE IF ~found_boss(boss_name)
       THEN /\ response' = Response("edit", boss_name, "Boss not found.")
            /\ inflight' = [inflight EXCEPT ![id] = [stage |-> "refused"]]
       ELSE IF boss_name \notin DOMAIN load_timers(timers_collection)
       THEN /\ response' = Response("edit", boss_name, "No timer to edit for this boss.")
            /\ inflight' = [inflight EXCEPT ![id] = [stage |-> "refused"]]
       ELSE IF ~minutes.isint
       THEN /\ response' = Response("edit", boss_name, "Invalid input.")
            /\ inflight' = [inflight EXCEPT ![id] = [stage |-> "refused"]]
       ELSE IF not_positive(minutes)
       THEN /\ response' = Response("edit", boss_name, "Please enter a positive number of minutes.")
            /\ inflight' = [inflight EXCEPT ![id] = [stage |-> "refused"]]
       ELSE /\ response' = NoResponse
            /\ inflight' = [inflight EXCEPT ![id] =
                    [stage |-> "loaded", boss_name |-> boss_name, minutes |-> minutes.v,
                     timer_entry |-> load_timers(timers_collection)[boss_name]]]
    /\ UNCHANGED <<now, timers_collection, mongodb, users_collection,
                   pending_users_collection, session, rendered, call>>
    /\ UNCHANGED other_session

\* edit, POST, lines 888-896: the loaded entry is moved back and saved
edit_finish(id) ==
    /\ inflight[id].stage = "loaded"
    /\ timers_collection' =
            save_timer(timers_collection, inflight[id].boss_name,
                       edited_entry(inflight[id].timer_entry, inflight[id].minutes))
    /\ response' = Response("edit", inflight[id].boss_name,
            inflight[id].boss_name \o " timer reduced by "
            \o ToString(inflight[id].minutes) \o " minutes!")
    /\ inflight' = [inflight EXCEPT ![id].stage = "saved"]
    /\ UNCHANGED <<now, mongodb, users_collection, pending_users_collection, session,
                   rendered, call>>
    /\ UNCHANGED other_session

NextCC ==
    \/ TickMinute
    \/ login("neveon", "sigmaboy")
    \/ reset("170", "POST")
    \/ \E id \in 1..MaxRequests, minutes \in {IntVal(5), IntVal(85), IntVal(0)} :
            edit_begin(id, "170", minutes)
    \/ \E id \in 1..MaxRequests : edit_finish(id)

SpecCC == InitDQ /\ [][NextCC]_vars

---------------------------------------------------------------------------
(* Calls of format_remaining *)

Days == {0, 1, 2}
Hours == {0, 1, 2, 23}
Minutes == {0, 1, 2, 30, 59}
Seconds == {0, 59}
\* timedelta values in ticks: whole seconds and the tick after them, and some
\* that are not positive
Timedeltas ==
    {((d * 86400 + h * 3600 + m * 60 + sec) * TicksPerSecond) + o :
        d \in Days, h \in Hours, m \in Minutes, sec \in Seconds, o \in {0, 1}}
    \cup {-1, -TicksPerSecond, -timedelta_minutes(90)}
FormatInputs ==
    {Some(td) : td \in Timedeltas}
    \cup {None_, NotTimedelta("str"), NotTimedelta("int"), NotTimedelta("datetime")}

Call(fn, arg) == [fn |-> fn, arg |-> arg, returned |-> FALSE, value |-> ""]

InitFR ==
    /\ now = 0
    /\ timers_collection = {}
    /\ mongodb = "up"
    /\ users_collection = << >>
    /\ pending_users_collection = << >>
    /\ session = [username |-> NoUser, is_admin |-> FALSE]
    /\ response = NoResponse
    /\ rendered = NoRender
    /\ inflight = NoRequests
    /\ call \in {Call("format_remaining", td) : td \in FormatInputs}
    /\ other_session = NoSession

format_remaining_call ==
    /\ call.fn = "format_remaining"
    /\ ~call.returned
    /\ call' = [call EXCEPT !.returned = TRUE, !.value = format_remaining(call.arg)]
    /\ UNCHANGED <<now, timers_collection, mongodb, users_collection,
                   pending_users_collection, session, response, rendered, inflight>>
    /\ UNCHANGED other_session

NextFR == format_remaining_call

SpecFR == InitFR /\ [][NextFR]_vars

---------------------------------------------------------------------------
(* Calls of parse_timestamp *)

ParseInputs ==
    {IsoStr(t, tz) : t \in Instants, tz \in Zones}
    \cup {PyNone, EmptyString, BadStr, IntValue}

\* a call of parse_timestamp; origin is the datetime the argument was made from
ParseCall(arg, origin) ==
    [fn |-> "parse_timestamp", arg |-> arg, returned |-> FALSE, value |-> NoDT,
     origin |-> origin]

InitPT ==
    /\ now = 0
    /\ timers_collection = {}
    /\ mongodb = "up"
    /\ users_collection = << >>
    /\ pending_users_collection = << >>
    /\ session = [username |-> NoUser, is_admin |-> FALSE]
    /\ response = NoResponse
    /\ rendered = NoRender
    /\ inflight = NoRequests
    /\ call \in {ParseCall(arg, NoDT) : arg \in ParseInputs}
    /\ other_session = NoSession

parse_timestamp_call ==
    /\ call.fn = "parse_timestamp"
    /\ ~call.returned
    /\ call' = [call EXCEPT !.returned = TRUE, !.value = parse_timestamp(call.arg)]
    /\ UNCHANGED <<now, timers_collection, mongodb, users_collection,
                   pending_users_collection, session, response, rendered, inflight>>
    /\ UNCHANGED other_session

\* the datetime a call returned is written as text, as save_timer's callers do
\* with isoformat(), and the text is parsed again
parse_text_of_result ==
    /\ call.fn = "parse_timestamp"
    /\ call.returned
    /\ call.value.some
    /\ ~call.origin.some
    /\ call' = ParseCall(isoformat(call.value), call.value)
    /\ UNCHANGED <<now, timers_collection, mongodb, users_collection,
                   pending_users_collection, session, response, rendered, inflight>>
    /\ UNCHANGED other_session

\* the datetime a call returned is itself passed to parse_timestamp
parse_result ==
    /\ call.fn = "parse_timestamp"
    /\ call.returned
    /\ call.value.some
    /\ ~call.origin.some
    /\ call' = ParseCall(DatetimeValue(call.value), call.value)
    /\ UNCHANGED <<now, timers_collection, mongodb, users_collection,
                   pending_users_collection, session, response, rendered, inflight>>
    /\ UNCHANGED other_session

NextPT ==
    \/ parse_timestamp_call
    \/ parse_text_of_result
    \/ parse_result

SpecPT == InitPT /\ [][NextPT]_vars

---------------------------------------------------------------------------
(* What the claims speak of *)

\* the lists an index request renders in the current state
View == index(load_timers(timers_collection), get_current_utc)

Entries(list, name) == {i \in 1..Len(list) : list[i].name = name}
InList(list, name) == Entries(list, name) # {}
EntryOf(list, name) == list[CHOOSE i \in Entries(list, name) : TRUE]
Catalog == {BOSSES[i] : i \in 1..Len(BOSSES)}

\* the stored event of a boss, and the timestamps the classification is about:
\* the stored value where it is a timestamp, the derived one elsewhere
StoredDocs(name) == {doc \in timers_collection : doc.name = name}
HasKillEvent(name) == \E doc \in StoredDocs(name) : doc.kill_time.k = "iso"
StoredDoc(name) == CHOOSE doc \in StoredDocs(name) : TRUE
EffSpawn(boss) ==
    LET doc == StoredDoc(boss.name)
    IN IF doc.spawn_time.k = "iso" THEN doc.spawn_time.t
       ELSE doc.kill_time.t + boss.respawn_minutes * TicksPerMinute
EffWindowEnd(boss) ==
    LET doc == StoredDoc(boss.name)
    IN IF doc.window_end_time.k = "iso" THEN doc.window_end_time.t
       ELSE EffSpawn(boss) + boss.window_minutes * TicksPerMinute

\* a span of ticks in whole seconds (spans here are never negative)
WholeSeconds(ticks) == ticks \div TicksPerSecond

\* C1 (as claimed): a boss with a kill event and spawn_time <= now <
\* window_end_time is listed in Due and in no other list.  The code lists it in
\* Lost during the last second of the window.
C1_DueInsideWindow ==
    LET view == View
    IN \A boss \in Catalog :
        (HasKillEvent(boss.name) /\ EffSpawn(boss) <= now /\ now < EffWindowEnd(boss))
        => /\ InList(view.due_bosses, boss.name)
           /\ ~InList(view.upcoming_bosses, boss.name)
           /\ ~InList(view.lost_bosses, boss.name)

\* C2 (as claimed): a boss with a kill event and now < spawn_time is listed in
\* Upcoming with respawn_seconds = spawn_time - now in whole seconds.  The code
\* lists it in Due or Lost during the last second before spawn_time.
C2_UpcomingBeforeSpawn ==
    LET view == View
    IN \A boss \in Catalog :
        (HasKillEvent(boss.name) /\ now < EffSpawn(boss))
        => /\ InList(view.upcoming_bosses, boss.name)
           /\ EntryOf(view.upcoming_bosses, boss.name).respawn_seconds
                  = IntVal(WholeSeconds(EffSpawn(boss) - now))

\* C3: a boss with a kill event and now >= window_end_time is listed in Lost and
\* neither in Due nor in Upcoming, also at now = window_end_time.
C3_LostAfterWindow ==
    LET view == View
    IN \A boss \in Catalog :
        (HasKillEvent(boss.name) /\ now >= EffWindowEnd(boss))
        => /\ InList(view.lost_bosses, boss.name)
           /\ ~InList(view.due_bosses, boss.name)
           /\ ~InList(view.upcoming_bosses, boss.name)

\* now is the window_end_time of a boss, and the boss is listed in Lost
C3_Witness ==
    \E boss \in Catalog :
        /\ HasKillEvent(boss.name) /\ now = EffWindowEnd(boss)
        /\ InList(View.lost_bosses, boss.name)

\* C4 (as claimed): at now = spawn_time < window_end_time the boss is listed in
\* Due and carries the full window as its countdown (window_end, window_seconds).
\* The code lists it in Due with both left empty.
C4_FullWindowAtSpawn ==
    LET view == View
    IN \A boss \in Catalog :
        (HasKillEvent(boss.name) /\ now = EffSpawn(boss) /\ EffSpawn(boss) < EffWindowEnd(boss))
        => /\ InList(view.due_bosses, boss.name)
           /\ LET entry == EntryOf(view.due_bosses, boss.name)
                  window == EffWindowEnd(boss) - EffSpawn(boss)
              IN /\ entry.window_seconds = IntVal(WholeSeconds(window))
                 /\ entry.window_end = format_remaining(Some(window))

\* the timestamp fields of a stored document that hold no kill time
NoKillTime(doc) == doc.kill_time.k \in {"absent", "none"}
NoKillEvent(name) == \A doc \in StoredDocs(name) : NoKillTime(doc)

\* C5: a boss with no record, or a record without kill_time, is listed in
\* Upcoming with respawn and window_end 'N/A' and no remaining seconds.
C5_NoEventUpcoming ==
    LET view == View
    IN \A boss \in Catalog :
        NoKillEvent(boss.name)
        => /\ InList(view.upcoming_bosses, boss.name)
           /\ LET entry == EntryOf(view.upcoming_bosses, boss.name)
              IN /\ entry.respawn = "N/A"
                 /\ entry.window_end = "N/A"
                 /\ entry.respawn_seconds = EmptyStr
                 /\ entry.window_seconds = EmptyStr

\* a record is there, its kill_time is not, and time has passed the stored window
C5_Witness ==
    \E boss \in Catalog :
        /\ StoredDocs(boss.name) # {}
        /\ NoKillEvent(boss.name)
        /\ StoredDoc(boss.name).window_end_time.k = "iso"
        /\ StoredDoc(boss.name).window_end_time.t <= now
        /\ InList(View.upcoming_bosses, boss.name)

\* C6: a boss whose stored kill_time does not parse is listed in Upcoming with
\* 'N/A' displays and after every entry that has a number of seconds, whatever
\* its stored spawn_time and window_end_time.
UnparseableKill(name) == \E doc \in StoredDocs(name) : doc.kill_time.k = "bad"
C6_UnparseableKillUpcoming ==
    LET list == View.upcoming_bosses
    IN \A boss \in Catalog :
        UnparseableKill(boss.name)
        => /\ InList(list, boss.name)
           /\ LET at == CHOOSE i \in Entries(list, boss.name) : TRUE
              IN /\ list[at].respawn = "N/A"
                 /\ list[at].window_end = "N/A"
                 /\ list[at].respawn_seconds = EmptyStr
                 /\ \A j \in 1..Len(list) : list[j].respawn_seconds.isint => j < at

\* the kill_time does not parse, the stored window is over, and a boss with a
\* countdown stands before it in Upcoming
C6_Witness ==
    \E boss \in Catalog :
        /\ UnparseableKill(boss.name)
        /\ StoredDoc(boss.name).window_end_time.k = "iso"
        /\ StoredDoc(boss.name).window_end_time.t <= now
        /\ LET list == View.upcoming_bosses
           IN /\ InList(list, boss.name)
              /\ \E j \in 1..Len(list) : list[j].respawn_seconds.isint

\* C7: for every store and instant the classification ends without an
\* exception, every boss of the catalog is in exactly one place of the three
\* lists together, and no other name is in them.
AllEntries(view) == view.due_bosses \o view.upcoming_bosses \o view.lost_bosses
C7_TotalPartition ==
    LET view == View
        all == AllEntries(view)
    IN /\ ~view.raised
       /\ \A boss \in Catalog : Cardinality(Entries(all, boss.name)) = 1
       /\ \A i \in 1..Len(all) : all[i].name \in BossNames

\* a store with a field that does not parse and a document the catalog does not
\* know, classified
C7_Witness ==
    /\ \E doc \in timers_collection : \E field \in TimeFields : doc[field].k = "bad"
    /\ \E doc \in timers_collection : doc.name \notin BossNames
    /\ Len(AllEntries(View)) = Len(BOSSES)

\* the place of a boss on the way Upcoming -> Due -> Lost
\* (the list of a boss is the list its pass of the loop appends to)
RankIn(collection, instant, name) ==
    LET i == CHOOSE j \in 1..Len(BOSSES) : BOSSES[j].name = name
        list == pass_list(load_timers(collection), DT(instant, "utc"), i)
    IN IF list = "lost" THEN 2 ELSE IF list = "due" THEN 1 ELSE 0
StateRank(name) == RankIn(timers_collection, now, name)

\* the last request was a reset of the boss that was written / an edit by minutes
ResetDone(name) ==
    response = Response("reset", name, name \o " timer reset!")
EditDone(name, minutes) ==
    response = Response("edit", name,
        name \o " timer reduced by " \o ToString(minutes) \o " minutes!")

\* C8: in a step that is not a reset of the boss (time passing, an edit, any
\* other request) the state of the boss does not move backward on
\* Upcoming -> Due -> Lost; in particular Lost stays Lost.
C8_NoBackwardWithoutReset ==
    [][\/ (timers_collection' = timers_collection /\ now' = now)
       \/ \A boss \in Catalog :
            response' # Response("reset", boss.name, boss.name \o " timer reset!")
            => RankIn(timers_collection', now', boss.name)
                  >= RankIn(timers_collection, now, boss.name)]_vars

\* an edit has just moved a boss whose window was still open into Lost
C8_Witness ==
    \E boss \in Catalog : \E minutes \in {5, 80, 85} :
        /\ EditDone(boss.name, minutes)
        /\ StateRank(boss.name) = 2
        /\ now < EffWindowEnd(boss) + minutes * TicksPerMinute

\* C9: right after a reset of a boss, at the instant of the reset, the boss is
\* listed in Upcoming with respawn_minutes * 60 seconds remaining.
C9_ResetGivesFullRespawn ==
    LET view == View
    IN \A boss \in Catalog :
        ResetDone(boss.name)
        => /\ InList(view.upcoming_bosses, boss.name)
           /\ EntryOf(view.upcoming_bosses, boss.name).respawn_seconds
                  = IntVal(boss.respawn_minutes * SecondsPerMinute)

\* a boss has been reset at an instant late enough for an earlier event of it to
\* have been Lost, and is listed in Upcoming
C9_Witness ==
    \E boss \in Catalog :
        /\ ResetDone(boss.name)
        /\ now >= (boss.respawn_minutes + boss.window_minutes) * TicksPerMinute
        /\ InList(View.upcoming_bosses, boss.name)

\* C10: right after a reset of boss B at instant t by user u the store holds
\* one event of B: kill_time t, spawn_time t + respawn, window_end_time
\* spawn_time + window, user u.
C10_ResetOverwrites ==
    \A boss \in Catalog :
        ResetDone(boss.name)
        => StoredDocs(boss.name) =
              {Doc(boss.name,
                   IsoStr(now, "naive"),
                   IsoStr(now + boss.respawn_minutes * TicksPerMinute, "naive"),
                   IsoStr(now + (boss.respawn_minutes + boss.window_minutes)
                                    * TicksPerMinute, "naive"),
                   session.username)}

\* a reset by neveon, later than the first instant, is what the store holds
C10_Witness ==
    \E boss \in Catalog :
        /\ ResetDone(boss.name)
        /\ now > 0
        /\ session.username = "neveon"
        /\ \E doc \in StoredDocs(boss.name) : doc.user = "neveon" /\ doc.kill_time.t = now

---------------------------------------------------------------------------
(* The stored events *)

\* the three timestamps of a document are there and valid
AllValid(doc) == \A field \in TimeFields : doc[field].k = "iso"

\* C11: no stored event has a kill_time later than the current instant.
C11_NoFutureKill ==
    \A doc \in timers_collection :
        doc.kill_time.k = "iso" => doc.kill_time.t <= now

\* a reset later than the first instant has stored the current instant, and the
\* store holds an older kill of another boss
C11_Witness ==
    \E boss \in Catalog :
        /\ ResetDone(boss.name)
        /\ StoredDoc(boss.name).kill_time.t = now
        /\ \E doc \in timers_collection :
              doc.kill_time.k = "iso" /\ doc.kill_time.t < now

\* C12: a stored event whose three timestamps are present and valid has
\* kill_time <= spawn_time <= window_end_time.
C12_OrderedTimestamps ==
    \A doc \in timers_collection :
        AllValid(doc)
        => /\ doc.kill_time.t <= doc.spawn_time.t
           /\ doc.spawn_time.t <= doc.window_end_time.t

\* the minutes an edit of the model succeeds with
PositiveMinutes == {m.v : m \in {x \in MinutesInputs : x.isint /\ x.v > 0}}

\* an event that was edited, with its three timestamps valid
C12_Witness ==
    \E boss \in Catalog : \E minutes \in PositiveMinutes :
        /\ EditDone(boss.name, minutes)
        /\ StoredDocs(boss.name) # {}
        /\ AllValid(StoredDoc(boss.name))
        /\ StoredDoc(boss.name).kill_time.t < StoredDoc(boss.name).spawn_time.t

\* a field after an edit by minutes: a timestamp is the same timestamp minutes
\* earlier, in the same zone; a field that holds no timestamp holds none after
MovedBack(old, new, minutes) ==
    IF old.k = "iso" THEN new = IsoStr(old.t - minutes * TicksPerMinute, old.tz)
    ELSE new.k \in {"absent", "none"}

\* C13: a step in which an edit of boss B by m > 0 minutes succeeds moves each
\* timestamp of B's stored event exactly m minutes earlier, and leaves its user
\* and the events of all other names as they were.
C13_EditShiftsBack ==
    [][\A boss \in Catalog : \A minutes \in PositiveMinutes :
          response' = Response("edit", boss.name,
              boss.name \o " timer reduced by " \o ToString(minutes) \o " minutes!")
          => /\ {doc \in timers_collection' : doc.name # boss.name}
                  = {doc \in timers_collection : doc.name # boss.name}
             /\ \E old \in timers_collection : \E new \in timers_collection' :
                   /\ {doc \in timers_collection : doc.name = boss.name} = {old}
                   /\ {doc \in timers_collection' : doc.name = boss.name} = {new}
                   /\ \A field \in TimeFields : MovedBack(old[field], new[field], minutes)
                   /\ new.user = old.user]_vars

\* an edit by 85 minutes has been stored while another boss has an event
C13_Witness ==
    \E boss \in Catalog :
        /\ EditDone(boss.name, 85)
        /\ AllValid(StoredDoc(boss.name))
        /\ StoredDoc(boss.name).window_end_time.t
               - StoredDoc(boss.name).kill_time.t
             = (boss.respawn_minutes + boss.window_minutes) * TicksPerMinute
        /\ \E doc \in timers_collection : doc.name # boss.name

\* the minutes values an edit has to refuse
RefusedMinutes == {x \in MinutesInputs : ~x.isint \/ x.v <= 0}
RefusalFlashes ==
    {"You must be logged in to edit timers.", "Boss not found.",
     "No timer to edit for this boss.",
     "Please enter a positive number of minutes.", "Invalid input."}

\* C14: an edit request (POST) whose minutes are zero, negative or not an
\* integer answers with a refusal and leaves the store as it was.
C14_BadMinutesRejected ==
    [][\A boss_name \in RequestedBosses : \A minutes \in RefusedMinutes :
          edit(boss_name, "POST", minutes)
          => /\ timers_collection' = timers_collection
             /\ response'.flash \in RefusalFlashes]_vars

\* an edit by 0 minutes of a boss that has an event has been refused
C14_Witness ==
    \E boss \in Catalog :
        /\ response = Response("edit", boss.name,
                                "Please enter a positive number of minutes.")
        /\ StoredDocs(boss.name) # {}
        /\ AllValid(StoredDoc(boss.name))

---------------------------------------------------------------------------
(* Stored and derived timestamps *)

\* the list the classification puts a boss in
ListOf(view, name) ==
    IF InList(view.due_bosses, name) THEN "due"
    ELSE IF InList(view.lost_bosses, name) THEN "lost"
    ELSE IF InList(view.upcoming_bosses, name) THEN "upcoming"
    ELSE "none"

\* C15: for a boss with a valid kill_time the classification ends without an
\* exception and counts the respawn from the stored spawn_time when that is a
\* valid timestamp (whatever the schedule says), and from kill_time + respawn
\* when it is absent or invalid; from that spawn time on the boss is not in
\* Upcoming.
C15_StoredSpawnElseDerived ==
    LET view == View
    IN \A boss \in Catalog :
        HasKillEvent(boss.name)
        => /\ ~view.raised
           /\ ListOf(view, boss.name) # "none"
           /\ EntryOf(AllEntries(view), boss.name).respawn_seconds
                  = IntVal(int_total_seconds(EffSpawn(boss) - now))
           /\ now >= EffSpawn(boss) => ListOf(view, boss.name) # "upcoming"

\* the stored spawn_time of a boss is off its schedule
OffSchedule(boss) ==
    /\ StoredDocs(boss.name) # {}
    /\ StoredDoc(boss.name).kill_time.k = "iso"
    /\ StoredDoc(boss.name).spawn_time.k = "iso"
    /\ StoredDoc(boss.name).spawn_time.t
          # StoredDoc(boss.name).kill_time.t + boss.respawn_minutes * TicksPerMinute

\* one boss is Upcoming by a stored spawn_time that the schedule has passed;
\* another, whose stored spawn_time does not parse, has left Upcoming
C15_Witness ==
    /\ \E boss \in Catalog :
          /\ OffSchedule(boss)
          /\ now >= StoredDoc(boss.name).kill_time.t
                       + boss.respawn_minutes * TicksPerMinute
          /\ InList(View.upcoming_bosses, boss.name)
    /\ \E boss \in Catalog :
          /\ HasKillEvent(boss.name)
          /\ StoredDoc(boss.name).spawn_time.k = "bad"
          /\ ~InList(View.upcoming_bosses, boss.name)

\* the list the two seconds counts of a boss stand for
ListBySeconds(respawn_seconds, window_seconds) ==
    IF respawn_seconds > 0 THEN "upcoming"
    ELSE IF window_seconds <= 0 THEN "lost" ELSE "due"

\* C16: for a boss with a valid kill_time the window is counted to the stored
\* window_end_time when that is a valid timestamp, else to the effective
\* spawn time (stored if valid, else derived) + window: the list of the boss
\* and, once the spawn time is past, its window_seconds follow that instant.
C16_StoredWindowEndElseDerived ==
    LET view == View
    IN \A boss \in Catalog :
        HasKillEvent(boss.name)
        => /\ ListOf(view, boss.name)
                 = ListBySeconds(int_total_seconds(EffSpawn(boss) - now),
                                 int_total_seconds(EffWindowEnd(boss) - now))
           /\ now > EffSpawn(boss)
                 => EntryOf(AllEntries(view), boss.name).window_seconds
                       = IntVal(int_total_seconds(EffWindowEnd(boss) - now))

\* one boss is Due by a stored window_end_time later than its effective spawn
\* time + window; another, whose stored window_end_time is lost, is Lost
C16_Witness ==
    /\ \E boss \in Catalog :
          /\ HasKillEvent(boss.name)
          /\ StoredDoc(boss.name).window_end_time.k = "iso"
          /\ StoredDoc(boss.name).spawn_time.k # "iso"
          /\ now >= StoredDoc(boss.name).kill_time.t
                + (boss.respawn_minutes + boss.window_minutes) * TicksPerMinute
          /\ InList(View.due_bosses, boss.name)
    /\ \E boss \in Catalog :
          /\ HasKillEvent(boss.name)
          /\ StoredDoc(boss.name).window_end_time.k \in {"absent", "bad"}
          /\ InList(View.lost_bosses, boss.name)

---------------------------------------------------------------------------
(* The order of the lists *)

Numeric(entry) == entry.respawn_seconds.isint

\* C17: in Upcoming the entries with a number of respawn seconds stand in
\* ascending order of it, and every entry without one (never killed) stands
\* after every entry with one.
C17_UpcomingAscending ==
    LET list == View.upcoming_bosses
    IN \A i, j \in 1..Len(list) :
        i < j
        => /\ (Numeric(list[i]) /\ Numeric(list[j]))
                 => list[i].respawn_seconds.v <= list[j].respawn_seconds.v
           /\ Numeric(list[j]) => Numeric(list[i])

\* both bosses are counting down, and the later one of the catalog stands first
C17_Witness ==
    LET list == View.upcoming_bosses
    IN /\ Len(list) = Len(BOSSES)
       /\ \A i \in 1..Len(list) : Numeric(list[i])
       /\ list[1].name = BOSSES[Len(BOSSES)].name
       /\ list[1].respawn_seconds.v < list[Len(list)].respawn_seconds.v

\* the boss of the catalog an entry stands for
BossOf(entry) == CHOOSE boss \in Catalog : boss.name = entry.name

\* C18 (as claimed): of two consecutive Due entries the first has no more
\* window left (window_end_time - now) than the second.  The code puts an
\* entry whose window count is left empty (at its spawn time and in the second
\* before it) after every entry with a count, whatever window it has left.
C18_DueAscending ==
    LET list == View.due_bosses
    IN \A i \in 1..Len(list) - 1 :
        EffWindowEnd(BossOf(list[i])) - now <= EffWindowEnd(BossOf(list[i + 1])) - now

\* the kill instant stored for the boss of an entry
KillInstant(entry) == StoredDoc(entry.name).kill_time.t

\* C19 (as claimed): of two consecutive Lost entries the first was not killed
\* earlier than the second.  The code orders by the minute of the kill, and
\* kills of the same minute stay in the order of the catalog.
C19_LostByKillInstant ==
    LET list == View.lost_bosses
    IN \A i \in 1..Len(list) - 1 : KillInstant(list[i]) >= KillInstant(list[i + 1])

---------------------------------------------------------------------------
(* The store out of reach *)

\* the entry of a boss without a record
NoRecordEntry(boss) ==
    [name |-> boss.name, respawn |-> "N/A", respawn_seconds |-> EmptyStr,
     window_end |-> "N/A", window_seconds |-> EmptyStr,
     last_kill |-> NotAvailable, last_user |-> "N/A"]

\* C20: while the server is out of reach (no connection, or every read fails)
\* load_timers gives the empty dict and the classification ends without an
\* exception with every boss of the catalog in Upcoming as a boss without a
\* record, and Due and Lost empty.
C20_StoreUnreachableAllUpcoming ==
    LET view == View
    IN mongodb # "up"
       => /\ DOMAIN load_timers(timers_collection) = {}
          /\ ~view.raised
          /\ view.due_bosses = << >>
          /\ view.lost_bosses = << >>
          /\ view.upcoming_bosses = [i \in 1..Len(BOSSES) |-> NoRecordEntry(BOSSES[i])]

\* the server is out of reach while the store holds an event of every boss,
\* one of them with its window over
C20_Witness ==
    /\ mongodb # "up"
    /\ \A boss \in Catalog : HasKillEvent(boss.name)
    /\ \E boss \in Catalog : now >= EffWindowEnd(boss)
    /\ Len(View.upcoming_bosses) = Len(BOSSES)

---------------------------------------------------------------------------
(* The index request and the store *)

\* C21: an index request leaves the store as it was, also when stored fields
\* do not parse and the lists are made from derived values.
C21_IndexLeavesStore ==
    [][response'.route = "index" => timers_collection' = timers_collection]_vars

\* an index request has listed in Due or Lost a boss whose stored spawn_time
\* does not parse
C21_Witness ==
    /\ response = Response("index", "", "")
    /\ rendered.done
    /\ \E boss \in Catalog :
          /\ HasKillEvent(boss.name)
          /\ StoredDoc(boss.name).spawn_time.k = "bad"
          /\ ~InList(rendered.last.view.upcoming_bosses, boss.name)
          /\ InList(AllEntries(rendered.last.view), boss.name)

---------------------------------------------------------------------------
(* format_remaining *)

Formatted == call.fn = "format_remaining" /\ call.returned
TicksPerDay == 86400 * TicksPerSecond
TicksPerHour == 3600 * TicksPerSecond
\* the parts of a positive duration d, in ticks
DaysOf(d) == d \div TicksPerDay
HoursOf(d) == (d % TicksPerDay) \div TicksPerHour
MinutesOf(d) == (d % TicksPerHour) \div TicksPerMinute
Part(n, unit) == ToString(n) \o " " \o unit \o (IF n = 1 THEN "" ELSE "s")
PartsOf(d) ==
    (IF DaysOf(d) > 0 THEN Part(DaysOf(d), "day") \o ", " ELSE "")
    \o (IF DaysOf(d) > 0 \/ HoursOf(d) > 0 THEN Part(HoursOf(d), "hr") \o ", " ELSE "")
    \o Part(MinutesOf(d), "min")

\* C23: format_remaining of a duration d gives 'Ready!' exactly when d <= 0,
\* and for d > 0 the days, hours and minutes of d: days only when days > 0,
\* hours only when days > 0 or hours > 0, each label plural unless its value
\* is 1.
C23_ReadyIffNotPositive ==
    (Formatted /\ isinstance_timedelta(call.arg)) =>
        /\ (call.value = "Ready!") <=> (call.arg.v <= 0)
        /\ call.arg.v > 0 => call.value = PartsOf(call.arg.v)

\* C24: format_remaining of None or of a value that is not a timedelta gives
\* 'N/A'; no exception leaves the call.
C24_NotAvailableForNonDurations ==
    (Formatted /\ ~isinstance_timedelta(call.arg)) => call.value = "N/A"

\* format_remaining has returned for a str
C24_Witness ==
    /\ Formatted
    /\ call.arg = NotTimedelta("str")
    /\ call.value = "N/A"

---------------------------------------------------------------------------
(* parse_timestamp *)

Parsed == call.fn = "parse_timestamp" /\ call.returned
\* the instant of a datetime, in ticks of UTC
InstantOf(dt) == dt.t - utcoffset(dt.tz)

\* C25: parse_timestamp returns from every call: None for None and for '',
\* the same reading tagged UTC for a timestamp without a zone, the datetime
\* unchanged for a timestamp with a zone, None for everything it cannot parse.
C25_ParseNeverRaises ==
    Parsed =>
        /\ call.arg.k \in {"none", "empty"} => call.value = NoDT
        /\ (call.arg.k = "iso" /\ call.arg.tz = "naive") => call.value = DT(call.arg.t, "utc")
        /\ (call.arg.k = "iso" /\ call.arg.tz # "naive") =>
                /\ call.value = DT(call.arg.t, call.arg.tz)
                /\ InstantOf(call.value) = call.arg.t - utcoffset(call.arg.tz)
        /\ call.arg.k \in {"bad", "int", "datetime"} => call.value = NoDT

\* a timestamp of the zone +05:00 has been parsed
C25_Witness ==
    /\ Parsed
    /\ call.arg.k = "iso"
    /\ call.arg.tz = "+05:00"
    /\ call.value.some

\* C26, as stated: parse_timestamp applied to what an earlier successful
\* parse_timestamp returned gives that same instant.
C26_ReparseSameInstant ==
    (Parsed /\ call.origin.some) => call.value = call.origin

\* C26, amended: parse_timestamp applied to the isoformat() text of what an
\* earlier successful parse_timestamp returned gives that same datetime;
\* applied to the datetime object itself it gives None.
C26_ReparseTextSameInstant ==
    (Parsed /\ call.origin.some) =>
        /\ call.arg.k = "iso" => call.value = call.origin
        /\ call.arg.k = "datetime" => call.value = NoDT

\* the text of a parsed timestamp of the zone +05:00 has been parsed again
C26_Witness ==
    /\ Parsed
    /\ call.origin.some
    /\ call.arg.k = "iso"
    /\ call.origin.tz = "+05:00"
    /\ call.value.some

---------------------------------------------------------------------------
(* Accounts *)

Records(collection) == {collection[i] : i \in 1..Len(collection)}
IsPending(pending, username) == \E p \in Records(pending) : p.username = username
Denied(route) == Response(route, "", "Access denied. Admin privileges required.")
Approved(username) ==
    Response("approve", "", "User " \o username \o " approved successfully.")

\* C27: a registered username and password do not authenticate while the
\* username has not been approved; when an admin approves the username, every
\* registration of it that was pending authenticates with its password and
\* the username is no longer pending.
C27_ApprovalAdmitsRegistrant ==
    /\ [](\A p \in Records(pending_users_collection) :
            find_user(users_collection, p.username) = {}
                => ~authenticate(users_collection, p.username, p.password).ok)
    /\ [][\A username \in Usernames :
            response' = Approved(username) =>
                /\ \A p \in Records(pending_users_collection) :
                      p.username = strip(username) =>
                         authenticate(users_collection', p.username, p.password).ok
                /\ ~IsPending(pending_users_collection', strip(username))]_vars

\* C28: an approve or remove request of a session with no username, or with
\* the username of a user who is not an admin, leaves the pending and the
\* approved users as they were.
C28_OnlyAdminsApproveOrRemove ==
    [][(response'.route \in {"approve", "remove"}
          /\ (session.username = NoUser \/ session.username \notin DOMAIN ADMIN_USERS))
        => /\ users_collection' = users_collection
           /\ pending_users_collection' = pending_users_collection]_vars

\* the approved user bob has asked to approve a pending registration and was
\* denied
C28_Witness ==
    /\ response = Denied("approve")
    /\ session.username = "bob"
    /\ pending_users_collection # << >>
    /\ users_collection # << >>

---------------------------------------------------------------------------
(* Edits that run at the same time as other requests *)

DocsOf(collection, boss_name) == {doc \in collection : doc.name = boss_name}
\* the three timestamps of a document are those of the entry moved back
ShiftedBy(doc, timer_entry, minutes) ==
    \A field \in TimeFields : doc[field] = edited_field(timer_entry[field], minutes)

\* C29: when two edits of one boss have loaded the same event and both have
\* saved and reported success, the stored timestamps are those of that event
\* moved back by the sum of the two edits.
C29_ConcurrentEditsCompose ==
    [][\A r1, r2 \in 1..MaxRequests :
          (/\ r1 # r2
           /\ inflight[r1].stage = "saved"
           /\ inflight[r2].stage = "loaded"
           /\ inflight'[r2].stage = "saved"
           /\ inflight[r1].boss_name = inflight[r2].boss_name
           /\ inflight[r1].timer_entry = inflight[r2].timer_entry
           /\ \A doc \in DocsOf(timers_collection, inflight[r1].boss_name) :
                 ShiftedBy(doc, inflight[r1].timer_entry, inflight[r1].minutes))
          => \A doc \in DocsOf(timers_collection', inflight[r2].boss_name) :
                 ShiftedBy(doc, inflight[r2].timer_entry,
                           inflight[r1].minutes + inflight[r2].minutes)]_vars

\* C30: when an edit saves after a reset of its boss was written later than
\* the edit's load, the stored event keeps the user of the reset and a
\* kill_time that is the reset's, as it was or moved back by the edit.
C30_EditKeepsNewerReset ==
    [][\A id \in 1..MaxRequests :
          (inflight[id].stage = "loaded" /\ inflight'[id].stage = "saved") =>
            \A doc \in DocsOf(timers_collection, inflight[id].boss_name) :
              (doc.kill_time.k = "iso" /\ inflight[id].timer_entry.kill_time.k = "iso"
                 /\ doc.kill_time.t > inflight[id].timer_entry.kill_time.t)
              => \A after \in DocsOf(timers_collection', inflight[id].boss_name) :
                    /\ after.user = doc.user
                    /\ after.kill_time \in
                          {doc.kill_time, edited_field(doc.kill_time, inflight[id].minutes)}]_vars

---------------------------------------------------------------------------
(* What the reset and edit requests report and write *)

ResetReported(name) == Response("reset", name, name \o " timer reset!")

\* C31: when a reset request has reported '<boss> timer reset!', the store
\* holds the kill event of that request for the boss; a reset whose write
\* failed does not report success.
C31_ReportedResetIsStored ==
    \A name \in BossNames :
        response = ResetReported(name)
        => \E doc \in timers_collection :
              /\ doc.name = name
              /\ doc.kill_time = isoformat(utcnow)
              /\ doc.user = session.username

\* C32: a reset or edit request of a session that is not logged in, for a name
\* that is not in the catalog, an edit of a boss with no stored timer, and a
\* GET of either route leave the store as it was.
C32_RejectedRequestsWriteNothing ==
    [][(/\ response'.route \in {"reset", "edit"}
        /\ \/ session.username = NoUser
           \/ response'.boss \notin BossNames
           \/ response'.route = "edit" /\ StoredDocs(response'.boss) = {}
           \/ response'.flash = "")
       => timers_collection' = timers_collection]_vars

\* a reset request without a session, and an edit of a boss with no timer, have
\* been turned away while the store holds an event of another boss
C32_Witness ==
    /\ timers_collection # {}
    /\ \/ response = Response("reset", "170", "You must be logged in to reset timers.")
       \/ /\ response = Response("edit", "Mordy", "No timer to edit for this boss.")
          /\ session.username # NoUser

\* C38: for a boss with a kill event the respawn display is 'Ready!' exactly
\* when the boss is in Due or Lost and a countdown exactly when it is in
\* Upcoming, and in Due the window countdown is neither empty nor 'Ready!'.
C38_DisplayAgreesWithList ==
    LET view == View
    IN \A boss \in Catalog :
        HasKillEvent(boss.name) =>
            LET entry == EntryOf(AllEntries(view), boss.name)
            IN /\ (entry.respawn = "Ready!")
                    <=> (InList(view.due_bosses, boss.name)
                         \/ InList(view.lost_bosses, boss.name))
               /\ (entry.respawn \notin {"Ready!", "N/A"})
                    <=> InList(view.upcoming_bosses, boss.name)
               /\ InList(view.due_bosses, boss.name)
                    => entry.window_end \notin {"", "Ready!"}

---------------------------------------------------------------------------
(* Usernames and admin rights *)

Accounts == pending_users_collection \o users_collection
RecordsOf(username) == {i \in 1..Len(Accounts) : Accounts[i].username = username}

\* C33: there is at most one account record, pending or approved, of a
\* username, and none of the username of a hardcoded admin.
C33_UsernamesUnique ==
    /\ \A i \in 1..Len(Accounts) : Cardinality(RecordsOf(Accounts[i].username)) <= 1
    /\ \A i \in 1..Len(Accounts) : Accounts[i].username \notin DOMAIN ADMIN_USERS

\* C35: a session that passes the admin check (a username, and is_admin set)
\* has the username of a hardcoded admin.
C35_AdminCheckOnlyForAdmins ==
    (session.username # NoUser /\ session.is_admin)
        => session.username \in DOMAIN ADMIN_USERS

\* bob, approved by an admin who was logged in on this session, has logged in
\* on it and the session does not pass the admin check
C35_Witness ==
    /\ session.username = "bob"
    /\ response = Response("login", "", "Logged in successfully.")
    /\ \E i \in 1..Len(users_collection) : users_collection[i].username = "bob"
    /\ ~session.is_admin

---------------------------------------------------------------------------
(* load_timers *)

Loading == call.fn = "load_timers"
EmptyMap == timers_of({})

\* C36: a call of load_timers comes to its end after at most 3 reads of the
\* store; it returns the events of the read that succeeded, and the empty map
\* when there was no client or 3 reads in a row failed.
C36_AtMostThreeReads ==
    /\ [](Loading =>
            /\ call.reads <= 3
            /\ call.returned =>
                  \/ call.reads = 0 /\ call.value = EmptyMap
                  \/ call.retry_count = 3 /\ call.reads = 3 /\ call.value = EmptyMap
                  \/ /\ call.retry_count < 3
                     /\ call.reads = call.retry_count + 1
                     /\ call.value = timers_of(timers_collection))
    /\ <>(Loading /\ call.returned)

\* the third read of a call succeeded after two that failed, on a store that
\* holds an event
C36_Witness ==
    /\ Loading
    /\ call.returned
    /\ call.reads = 3
    /\ call.retry_count = 2
    /\ call.value # EmptyMap

\* C37: in the map load_timers returns every timestamp field is a string that
\* parses, None or absent; a stored field that does not parse is None, every
\* other field is the stored one; every named document is in the map and no
\* document without a name is.
C37_ReturnedFieldsParse ==
    (Loading /\ call.returned /\ call.reads > call.retry_count) =>
        /\ DOMAIN call.value = {doc.name : doc \in timers_collection} \ {""}
        /\ \A doc \in timers_collection :
              doc.name # "" =>
                /\ call.value[doc.name].name = doc.name
                /\ call.value[doc.name].user = doc.user
                /\ \A field \in TimeFields :
                      /\ call.value[doc.name][field].k \in {"iso", "none", "absent"}
                      /\ call.value[doc.name][field] =
                            IF doc[field].k \in {"bad", "int"} THEN PyNone ELSE doc[field]

\* load_timers has returned a store with a document without a name and a
\* document of 170 whose spawn_time does not parse while its kill_time does
C37_Witness ==
    /\ Loading
    /\ call.returned
    /\ call.reads > call.retry_count
    /\ \E doc \in timers_collection : doc.name = ""
    /\ \E doc \in timers_collection :
          /\ doc.name = "170"
          /\ doc.spawn_time = BadStr
          /\ doc.kill_time.k = "iso"
          /\ call.value["170"].spawn_time = PyNone
          /\ call.value["170"].kill_time = doc.kill_time

---------------------------------------------------------------------------
(* Removed users *)

Removed(username) ==
    Response("remove", "", "User " \o username \o " removed successfully.")
\* the username is that of an admin or of an approved record
IsAccount(users, username) ==
    username \in DOMAIN ADMIN_USERS \/ find_user(users, username) # {}

\* C34: once an admin has removed a user, no password authenticates the
\* username, and no reset or edit request writes for a session whose user is
\* no longer an account, whenever that session was opened.
C34_RemovedUserCannotAct ==
    /\ [][response' = Removed("bob") =>
            \A password \in Passwords :
                ~authenticate(users_collection', "bob", password).ok]_vars
    /\ [][(response'.route \in {"reset", "edit"}
             /\ timers_collection' # timers_collection)
           => IsAccount(users_collection, session.username)]_vars

====
